---------------------------- MODULE Spec2Model ----------------------------
(***************************************************************************)
(* Form builder: the field editing session (FieldEditor), the read-only    *)
(* field view (FormField) and the field collection that owns them.         *)
(*                                                                         *)
(* Text is a sequence of chunks (<<>> is the empty string), HTML a         *)
(* sequence of tokens: text chunks and tags.  An optional attribute is a   *)
(* record [some, val]; array indices are 0-based as in the source and      *)
(* Null (-1) is the source's null.                                         *)
(***************************************************************************)
EXTENDS Integers, Sequences, FiniteSets, TLC

VARIABLES
    fields,                 \* the field collection (owned by the caller of FieldEditor / FormField)
    editingFieldId,         \* id of the field an editing session is open on, 0 when none
    editedField,            \* FieldEditor: the working copy
    editor,                 \* FieldEditor: the content of the editing surface (editorRef)
    draggedOptionIndex,     \* FieldEditor: dragged option index or Null
    dropTargetOptionIndex,  \* FieldEditor: drop target option index or Null
    viewDragged,            \* FormField: draggedOptionIndex of the field view
    viewDropTarget,         \* FormField: dropTargetOptionIndex of the field view
    nextId,                 \* the identifier generator: the next id it hands out
    drag,                   \* the browser's drag session: what is being dragged
    draggedFieldIndex,      \* the collection: dragged field index or Null
    isDragging,             \* FormField: isDragging of each field view
    answers,                \* FormPreview: the answers given, by field id
    steps,                  \* the number of operations performed so far
    last                    \* the name of the last operation performed

dragVars == <<drag, draggedFieldIndex, isDragging>>

vars == <<fields, editingFieldId, editedField, editor, draggedOptionIndex,
          dropTargetOptionIndex, viewDragged, viewDropTarget, nextId, dragVars,
          answers, steps, last>>

---------------------------------------------------------------------------
(* Bounds *)

MaxSteps == 4
MaxText == 1
MaxMarks == 1
MaxList == 4

Null == 0 - 1

---------------------------------------------------------------------------
(* Data model *)

FieldTypes == {"multiple_choice", "dropdown", "free_text", "checkbox",
               "section", "image", "ranking"}

OptionTypes == {"multiple_choice", "dropdown", "checkbox", "ranking"}

SpecialTypes == {"section", "image"}

Some(v) == [some |-> TRUE, val |-> v]

NoList == [some |-> FALSE, val |-> <<>>]

NoString == [some |-> FALSE, val |-> ""]

Option(id, value) == [id |-> id, value |-> value]

\* The browser's drag session: the kind of handle picked up ("field",
\* "option" in a field view, "editorOption" in the editing session) and the
\* id of the field it belongs to; "none" when nothing is dragged.
Drag(kind, source) == [kind |-> kind, source |-> source]

\* While a drag session lasts the browser delivers drag events only: the
\* handlers of clicks and of input are guarded by drag.kind = "none".
NoDrag == Drag("none", 0)

\* useState({}) of FormPreview: no field has an answer.
NoAnswers == <<>>

\* A drag that is over an option row ends with the drop on that row or, when
\* it is cancelled, with the row's dragleave, and a drag that moves off a row
\* leaves it: when the dragend is delivered no row of a field view is a drop
\* target.
NoRowHovered == \A id \in DOMAIN viewDropTarget : viewDropTarget[id] = Null

FormFieldType(id, type, question, options) ==
    [id |-> id, type |-> type, question |-> question,
     formattedQuestion |-> NoList, required |-> FALSE, options |-> options,
     description |-> NoString, imageUrl |-> NoString]

OptionIds(f) == {f.options.val[k].id : k \in DOMAIN f.options.val}

OptionValues(f) == [k \in DOMAIN f.options.val |-> f.options.val[k].value]

---------------------------------------------------------------------------
(* Text, HTML and the editing surface *)

Chunks == {"a"}

Marks == {"b", "i", "s", "u"}

MarkOrder == <<"b", "i", "s", "u">>

ForeignTag == "<img onerror>"

OpenTag(m) == "<" \o m \o ">"

CloseTag(m) == "</" \o m \o ">"

AllowedTags == {OpenTag(m) : m \in Marks} \cup {CloseTag(m) : m \in Marks}

IsText(tok) == tok \notin AllowedTags /\ tok # ForeignTag

\* Plain-text content of an HTML string: the text between the tags.
PlainText(html) == SelectSeq(html, IsText)

\* The sanitizer: HTML restricted to the allow-listed tags.
IsAllowed(tok) == tok # ForeignTag

sanitizeHtml(html) == SelectSeq(html, IsAllowed)

EmptySurface == [text |-> <<>>, marks |-> {}, foreign |-> FALSE]

RECURSIVE OpenTags(_, _)
OpenTags(marks, k) ==
    IF k > Len(MarkOrder) THEN <<>>
    ELSE (IF MarkOrder[k] \in marks THEN <<OpenTag(MarkOrder[k])>> ELSE <<>>)
         \o OpenTags(marks, k + 1)

RECURSIVE CloseTags(_, _)
CloseTags(marks, k) ==
    IF k < 1 THEN <<>>
    ELSE (IF MarkOrder[k] \in marks THEN <<CloseTag(MarkOrder[k])>> ELSE <<>>)
         \o CloseTags(marks, k - 1)

\* editorRef.current.innerHTML (read): the serialised content of the surface.
\* Marks set on an empty surface are pending: they wrap the text once typed.
innerHTML(d) ==
    (IF d.text = <<>> THEN <<>>
     ELSE OpenTags(d.marks, 1) \o d.text \o CloseTags(d.marks, Len(MarkOrder)))
    \o (IF d.foreign THEN <<ForeignTag>> ELSE <<>>)

\* editorRef.current.textContent (read)
textContent(d) == d.text

\* editorRef.current.innerHTML = html (write): the surface parsed from HTML.
setInnerHTML(html) ==
    [text |-> PlainText(html),
     marks |-> {m \in Marks : \E k \in DOMAIN html : html[k] = OpenTag(m)},
     foreign |-> \E k \in DOMAIN html : html[k] = ForeignTag]

\* editorRef.current.innerText = text (write)
setInnerText(text) == [text |-> text, marks |-> {}, foreign |-> FALSE]

Commands == {"bold", "italic", "strikeThrough", "underline", "removeFormat"}

CommandMark(command) ==
    CASE command = "bold" -> "b"
      [] command = "italic" -> "i"
      [] command = "strikeThrough" -> "s"
      [] command = "underline" -> "u"

Toggle(marks, m) == IF m \in marks THEN marks \ {m} ELSE marks \cup {m}

\* applyFormatting(command): the command applied to the whole content.
applyFormatting(d, command) ==
    IF command = "removeFormat" THEN [d EXCEPT !.marks = {}]
    ELSE [d EXCEPT !.marks = Toggle(d.marks, CommandMark(command))]

Placeholder == <<"Type your question here">>

\* JavaScript's a || b on strings and on optional strings
OrText(a, b) == IF a # <<>> THEN a ELSE b

Truthy(opt, empty) == opt.some /\ opt.val # empty

\* Mutation of InitialSurface for C30: the stored HTML is written to the
\* surface as it is.
InitialSurfaceUnsanitized(f) ==
    IF Truthy(f.formattedQuestion, <<>>)
    THEN setInnerHTML(f.formattedQuestion.val)
    ELSE IF f.question # <<>> /\ f.question # Placeholder
    THEN setInnerText(f.question)
    ELSE setInnerText(<<>>)

\* FieldEditor's mount effect: the initial content of the surface.
InitialSurface(f) ==
    IF Truthy(f.formattedQuestion, <<>>)
    THEN setInnerHTML(sanitizeHtml(f.formattedQuestion.val))
    ELSE IF f.question # <<>> /\ f.question # Placeholder
    THEN setInnerText(f.question)
    ELSE setInnerText(<<>>)

---------------------------------------------------------------------------
(* The field collection (the caller of FieldEditor and FormField) *)

IndexOfField(id) == CHOOSE k \in DOMAIN fields : fields[k].id = id

HasField(id) == \E k \in DOMAIN fields : fields[k].id = id

LiveCopy == fields[IndexOfField(editingFieldId)]

\* onFieldChange / onSave: the field with the same id is replaced.
ReplaceField(fs, f) == [k \in DOMAIN fs |-> IF fs[k].id = f.id THEN f ELSE fs[k]]

\* The default field the collection creates for add(type).
NewField(id, type, oid1, oid2) ==
    FormFieldType(id, type, Placeholder,
        IF type \in OptionTypes
        THEN Some(<<Option(oid1, <<"Option 1">>), Option(oid2, <<"Option 2">>)>>)
        ELSE NoList)

---------------------------------------------------------------------------
(* FieldEditor: the type state machine *)

\* Mutation of TypeChange for C1: both default options get the same id.
TypeChangeSameIds(prev, type, id1, id2) ==
    IF type \in OptionTypes /\ (~prev.options.some \/ Len(prev.options.val) = 0)
    THEN [prev EXCEPT !.type = type,
                      !.options = Some(<<Option(id1, <<"Option 1">>),
                                         Option(id1, <<"Option 2">>)>>)]
    ELSE [prev EXCEPT !.type = type]

\* Mutation of TypeChange for C2: every change into an option-bearing type
\* starts from the two default options.
TypeChangeResetsOptions(prev, type, id1, id2) ==
    IF type \in OptionTypes
    THEN [prev EXCEPT !.type = type,
                      !.options = Some(<<Option(id1, <<"Option 1">>),
                                         Option(id2, <<"Option 2">>)>>)]
    ELSE [prev EXCEPT !.type = type]

\* Mutation of TypeChange for C17: a change to section keeps the question.
TypeChangeSectionKeepsQuestion(prev, type, id1, id2) ==
    IF type \in OptionTypes /\ (~prev.options.some \/ Len(prev.options.val) = 0)
    THEN [prev EXCEPT !.type = type,
                      !.options = Some(<<Option(id1, <<"Option 1">>),
                                         Option(id2, <<"Option 2">>)>>)]
    ELSE IF type = "section" /\ prev.options.some
    THEN [prev EXCEPT !.type = type, !.options = Some(<<>>)]
    ELSE IF type = "image"
    THEN [prev EXCEPT !.type = type, !.question = <<"Image Question">>,
                      !.imageUrl = Some(IF Truthy(prev.imageUrl, "")
                                        THEN prev.imageUrl.val ELSE "")]
    ELSE [prev EXCEPT !.type = type]

\* Mutation of TypeChange for C18: a change to image starts from an empty
\* image URL.
TypeChangeImageDropsUrl(prev, type, id1, id2) ==
    IF type \in OptionTypes /\ (~prev.options.some \/ Len(prev.options.val) = 0)
    THEN [prev EXCEPT !.type = type,
                      !.options = Some(<<Option(id1, <<"Option 1">>),
                                         Option(id2, <<"Option 2">>)>>)]
    ELSE IF type = "section" /\ prev.options.some
    THEN [prev EXCEPT !.type = type, !.options = Some(<<>>),
                      !.question = <<"Section Title">>]
    ELSE IF type = "image"
    THEN [prev EXCEPT !.type = type, !.question = <<"Image Question">>,
                      !.imageUrl = Some("")]
    ELSE [prev EXCEPT !.type = type]

\* Mutation of TypeChange for C26: a change to an option type gives the
\* first option of a list that is kept a new id.
TypeChangeRenumbers(prev, type, id1, id2) ==
    IF type \in OptionTypes /\ (~prev.options.some \/ Len(prev.options.val) = 0)
    THEN [prev EXCEPT !.type = type,
                      !.options = Some(<<Option(id1, <<"Option 1">>),
                                         Option(id2, <<"Option 2">>)>>)]
    ELSE IF type \in OptionTypes
    THEN [prev EXCEPT !.type = type, !.options.val[1].id = id1]
    ELSE IF type = "section" /\ prev.options.some
    THEN [prev EXCEPT !.type = type, !.options = Some(<<>>),
                      !.question = <<"Section Title">>]
    ELSE IF type = "image"
    THEN [prev EXCEPT !.type = type, !.question = <<"Image Question">>,
                      !.imageUrl = Some(IF Truthy(prev.imageUrl, "")
                                        THEN prev.imageUrl.val ELSE "")]
    ELSE [prev EXCEPT !.type = type]

\* The updater of handleTypeChange; id1, id2 are the ids uuidv4 hands out.
TypeChange(prev, type, id1, id2) ==
    IF type \in OptionTypes /\ (~prev.options.some \/ Len(prev.options.val) = 0)
    THEN [prev EXCEPT !.type = type,
                      !.options = Some(<<Option(id1, <<"Option 1">>),
                                         Option(id2, <<"Option 2">>)>>)]
    ELSE IF type = "section" /\ prev.options.some
    THEN [prev EXCEPT !.type = type, !.options = Some(<<>>),
                      !.question = <<"Section Title">>]
    ELSE IF type = "image"
    THEN [prev EXCEPT !.type = type, !.question = <<"Image Question">>,
                      !.imageUrl = Some(IF Truthy(prev.imageUrl, "")
                                        THEN prev.imageUrl.val ELSE "")]
    ELSE [prev EXCEPT !.type = type]

\* Whether handleTypeChange draws ids from the generator.
TypeChangeDrawsIds(prev, type) ==
    type \in OptionTypes /\ (~prev.options.some \/ Len(prev.options.val) = 0)

handleTypeChange(type) ==
    /\ editingFieldId # 0
    /\ drag.kind = "none"
    /\ editedField' = TypeChange(editedField, type, nextId, nextId + 1)
    /\ nextId' = IF TypeChangeDrawsIds(editedField, type) THEN nextId + 2 ELSE nextId
    /\ last' = "handleTypeChange"
    /\ UNCHANGED <<fields, editingFieldId, editor, draggedOptionIndex,
                   dropTargetOptionIndex, viewDragged, viewDropTarget,
                   dragVars>>

---------------------------------------------------------------------------
(* FieldEditor: the rich-text surface *)

\* Mutation of SyncQuestion for C6: the HTML is stored, the plain text is not.
SyncQuestionHtmlOnly(prev, d) ==
    [prev EXCEPT !.formattedQuestion = Some(innerHTML(d))]

\* The updater shared by handleFormat and handleEditorChange.
SyncQuestion(prev, d) ==
    [prev EXCEPT !.formattedQuestion = Some(innerHTML(d)),
                 !.question = textContent(d)]

handleFormat(command) ==
    /\ editingFieldId # 0
    /\ drag.kind = "none"
    /\ Cardinality(applyFormatting(editor, command).marks) <= MaxMarks
    /\ editor' = applyFormatting(editor, command)
    /\ editedField' = SyncQuestion(editedField, editor')
    /\ last' = "handleFormat"
    /\ UNCHANGED <<fields, editingFieldId, draggedOptionIndex,
                   dropTargetOptionIndex, viewDragged, viewDropTarget,
                   nextId, dragVars>>

Texts == UNION {[1..n -> Chunks] : n \in 0..MaxText}

\* What one input event can leave on the surface: typed or deleted text,
\* or pasted content, which may carry markup outside the allow-list.
InputResults(d) ==
    {[text |-> t, marks |-> d.marks, foreign |-> f] :
        t \in Texts, f \in BOOLEAN} \ {d}

\* onInput of the surface
handleEditorChange(d) ==
    /\ editingFieldId # 0
    /\ drag.kind = "none"
    /\ d \in InputResults(editor)
    /\ editor' = d
    /\ editedField' = SyncQuestion(editedField, editor')
    /\ last' = "handleEditorChange"
    /\ UNCHANGED <<fields, editingFieldId, draggedOptionIndex,
                   dropTargetOptionIndex, viewDragged, viewDropTarget,
                   nextId, dragVars>>

handleImageUrlChange(value) ==
    /\ editingFieldId # 0
    /\ drag.kind = "none"
    /\ editedField.type = "image"
    /\ editedField' = [editedField EXCEPT !.imageUrl = Some(value)]
    /\ last' = "handleImageUrlChange"
    /\ UNCHANGED <<fields, editingFieldId, editor, draggedOptionIndex,
                   dropTargetOptionIndex, viewDragged, viewDropTarget,
                   nextId, dragVars>>

handleDescriptionChange(value) ==
    /\ editingFieldId # 0
    /\ drag.kind = "none"
    /\ editedField.type \in SpecialTypes
    /\ editedField' = [editedField EXCEPT !.description = Some(value)]
    /\ last' = "handleDescriptionChange"
    /\ UNCHANGED <<fields, editingFieldId, editor, draggedOptionIndex,
                   dropTargetOptionIndex, viewDragged, viewDropTarget,
                   nextId, dragVars>>

\* Mutation of handleToggleRequired for C15: the flag is flipped whatever
\* the type.
handleToggleRequiredAnyType ==
    /\ editingFieldId # 0
    /\ drag.kind = "none"
    /\ editedField' = [editedField EXCEPT !.required = ~editedField.required]
    /\ last' = "handleToggleRequired"
    /\ UNCHANGED <<fields, editingFieldId, editor, draggedOptionIndex,
                   dropTargetOptionIndex, viewDragged, viewDropTarget, nextId,
                   dragVars>>

handleToggleRequired ==
    /\ editingFieldId # 0
    /\ drag.kind = "none"
    /\ editedField' = IF editedField.type \in SpecialTypes THEN editedField
                      ELSE [editedField EXCEPT !.required = ~editedField.required]
    /\ last' = "handleToggleRequired"
    /\ UNCHANGED <<fields, editingFieldId, editor, draggedOptionIndex,
                   dropTargetOptionIndex, viewDragged, viewDropTarget,
                   nextId, dragVars>>

---------------------------------------------------------------------------
(* FieldEditor: the option editor *)

\* useState("") of line 142; no handler ever sets another value.
newOption == <<>>

UnknownId == 0

\* Mutation of OptionLabel for C22: placeholders are numbered from zero.
OptionLabelZeroBased(n) == <<"Option " \o ToString(n - 1)>>

OptionLabel(n) == <<"Option " \o ToString(n)>>

\* Mutation of MapOptions for C20: every option takes the value.
MapOptionsAll(prev, id, value) ==
    IF prev.options.some
    THEN Some([k \in DOMAIN prev.options.val |->
                 [prev.options.val[k] EXCEPT !.value = value]])
    ELSE prev.options

\* prev.options?.map(...): an absent list stays absent.
MapOptions(prev, id, value) ==
    IF prev.options.some
    THEN Some([k \in DOMAIN prev.options.val |->
                 IF prev.options.val[k].id = id
                 THEN [prev.options.val[k] EXCEPT !.value = value]
                 ELSE prev.options.val[k]])
    ELSE prev.options

\* [...(prev.options || []), newOpt]
AppendOption(prev, newOpt) ==
    Some((IF prev.options.some THEN prev.options.val ELSE <<>>) \o <<newOpt>>)

\* Mutation of FilterOptions for C21: the last remaining option stays.
FilterOptionsKeepOne(prev, id) ==
    IF prev.options.some /\ Len(prev.options.val) > 1
    THEN Some(SelectSeq(prev.options.val, LAMBDA opt : opt.id # id))
    ELSE prev.options

\* prev.options?.filter(...)
FilterOptions(prev, id) ==
    IF prev.options.some
    THEN Some(SelectSeq(prev.options.val, LAMBDA opt : opt.id # id))
    ELSE prev.options

\* Mutation of MirrorIfRanking for C9: the collection is never told.
MirrorNever(prev, updatedField) == fields

\* if (onFieldChange && prev.type === "ranking") onFieldChange(updatedField)
MirrorIfRanking(prev, updatedField) ==
    IF prev.type = "ranking" THEN ReplaceField(fields, updatedField) ELSE fields

OptionCount(f) == IF f.options.some THEN Len(f.options.val) ELSE 0

handleOptionChange(id, value) ==
    /\ editingFieldId # 0
    /\ drag.kind = "none"
    /\ editedField.type \in OptionTypes
    /\ LET updatedField == [editedField EXCEPT
                               !.options = MapOptions(editedField, id, value)]
       IN /\ editedField' = updatedField
          /\ fields' = MirrorIfRanking(editedField, updatedField)
    /\ last' = "handleOptionChange"
    /\ UNCHANGED <<editingFieldId, editor, draggedOptionIndex,
                   dropTargetOptionIndex, viewDragged, viewDropTarget,
                   nextId, dragVars>>

\* Mutation of handleAddOption for C19: the placeholder is numbered from the
\* option list the session was opened with, not from the working copy's.
handleAddOptionStaleCount ==
    /\ editingFieldId # 0
    /\ drag.kind = "none"
    /\ editedField.type \in OptionTypes
    /\ LET newOpt == Option(nextId, OptionLabel(OptionCount(LiveCopy) + 1))
           updatedField == [editedField EXCEPT
                               !.options = AppendOption(editedField, newOpt)]
       IN /\ editedField' = updatedField
          /\ fields' = MirrorIfRanking(editedField, updatedField)
    /\ nextId' = nextId + 1
    /\ last' = "handleAddOption"
    /\ UNCHANGED <<editingFieldId, editor, draggedOptionIndex,
                   dropTargetOptionIndex, viewDragged, viewDropTarget,
                   dragVars>>

handleAddOption ==
    /\ editingFieldId # 0
    /\ drag.kind = "none"
    /\ editedField.type \in OptionTypes
    /\ LET newOpt == IF newOption # <<>>
                     THEN Option(nextId, newOption)
                     ELSE Option(nextId, OptionLabel(OptionCount(editedField) + 1))
           updatedField == [editedField EXCEPT
                               !.options = AppendOption(editedField, newOpt)]
       IN /\ editedField' = updatedField
          /\ fields' = MirrorIfRanking(editedField, updatedField)
    /\ nextId' = nextId + 1
    /\ last' = "handleAddOption"
    /\ UNCHANGED <<editingFieldId, editor, draggedOptionIndex,
                   dropTargetOptionIndex, viewDragged, viewDropTarget,
                   dragVars>>

handleAddOtherOption ==
    /\ editingFieldId # 0
    /\ drag.kind = "none"
    /\ editedField.type \in OptionTypes
    /\ LET newOpt == Option(nextId, <<"Other">>)
           updatedField == [editedField EXCEPT
                               !.options = AppendOption(editedField, newOpt)]
       IN /\ editedField' = updatedField
          /\ fields' = MirrorIfRanking(editedField, updatedField)
    /\ nextId' = nextId + 1
    /\ last' = "handleAddOtherOption"
    /\ UNCHANGED <<editingFieldId, editor, draggedOptionIndex,
                   dropTargetOptionIndex, viewDragged, viewDropTarget,
                   dragVars>>

handleDeleteOption(id) ==
    /\ editingFieldId # 0
    /\ drag.kind = "none"
    /\ editedField.type \in OptionTypes
    /\ LET updatedField == [editedField EXCEPT
                               !.options = FilterOptions(editedField, id)]
       IN /\ editedField' = updatedField
          /\ fields' = MirrorIfRanking(editedField, updatedField)
    /\ last' = "handleDeleteOption"
    /\ UNCHANGED <<editingFieldId, editor, draggedOptionIndex,
                   dropTargetOptionIndex, viewDragged, viewDropTarget,
                   nextId, dragVars>>

---------------------------------------------------------------------------
(* The reorder protocol *)

\* What a destructured element of an empty array is.
Undefined == [id |-> UnknownId, value |-> <<"undefined">>]

\* arr.splice(start, 1): the array without the element at start.
SpliceOut(arr, start) ==
    IF start < Len(arr)
    THEN SubSeq(arr, 1, start) \o SubSeq(arr, start + 2, Len(arr))
    ELSE arr

\* const [item] = arr.splice(start, 1)
Spliced(arr, start) == IF start < Len(arr) THEN arr[start + 1] ELSE Undefined

\* arr.splice(start, 0, item)
SpliceIn(arr, start, item) ==
    LET at == IF start < Len(arr) THEN start ELSE Len(arr)
    IN SubSeq(arr, 1, at) \o <<item>> \o SubSeq(arr, at + 1, Len(arr))

\* Mutation of Reorder for C10: the drop index is taken in the original
\* sequence, so the item lands before the drop target in both directions.
ReorderSymmetric(options, from, to) ==
    SpliceIn(SpliceOut(options, from), IF from < to THEN to - 1 ELSE to,
             Spliced(options, from))

\* Mutation of Reorder for C23: the item is inserted but not taken out.
ReorderCopies(options, from, to) ==
    SpliceIn(options, to, Spliced(options, from))

\* The two splices of both drop handlers.
Reorder(options, from, to) ==
    SpliceIn(SpliceOut(options, from), to, Spliced(options, from))

\* FieldEditor, option row i: onDragStart
editorDragStart(i) ==
    /\ editingFieldId # 0
    /\ drag.kind = "none"
    /\ editedField.type \in OptionTypes
    /\ i \in 0..(OptionCount(editedField) - 1)
    /\ draggedOptionIndex' = i
    /\ drag' = Drag("editorOption", editingFieldId)
    /\ last' = "editorDragStart"
    /\ UNCHANGED <<fields, editingFieldId, editedField, editor,
                   dropTargetOptionIndex, viewDragged, viewDropTarget,
                   nextId, draggedFieldIndex, isDragging>>

\* FieldEditor, option row i: onDragOver
editorDragOver(i) ==
    /\ editingFieldId # 0
    /\ drag.kind # "none"
    /\ editedField.type \in OptionTypes
    /\ i \in 0..(OptionCount(editedField) - 1)
    /\ dropTargetOptionIndex' =
         IF draggedOptionIndex # Null /\ draggedOptionIndex # i
         THEN i ELSE dropTargetOptionIndex
    /\ last' = "editorDragOver"
    /\ UNCHANGED <<fields, editingFieldId, editedField, editor,
                   draggedOptionIndex, viewDragged, viewDropTarget, nextId,
                   dragVars>>

\* FieldEditor, option row: onDragLeave
editorDragLeave ==
    /\ editingFieldId # 0
    /\ drag.kind # "none"
    /\ editedField.type \in OptionTypes
    /\ OptionCount(editedField) > 0
    /\ dropTargetOptionIndex' = Null
    /\ last' = "editorDragLeave"
    /\ UNCHANGED <<fields, editingFieldId, editedField, editor,
                   draggedOptionIndex, viewDragged, viewDropTarget, nextId,
                   dragVars>>

\* FieldEditor, option row i: onDrop
editorDrop(i) ==
    /\ editingFieldId # 0
    /\ drag.kind # "none"
    /\ editedField.type \in OptionTypes
    /\ i \in 0..(OptionCount(editedField) - 1)
    /\ IF draggedOptionIndex # Null /\ draggedOptionIndex # i
       THEN LET newOptions == Reorder(editedField.options.val,
                                      draggedOptionIndex, i)
                updatedField == [editedField EXCEPT !.options = Some(newOptions)]
            IN /\ editedField' = updatedField
               /\ fields' = ReplaceField(fields, updatedField)
               /\ draggedOptionIndex' = Null
               /\ dropTargetOptionIndex' = Null
       ELSE UNCHANGED <<editedField, fields, draggedOptionIndex,
                        dropTargetOptionIndex>>
    /\ last' = "editorDrop"
    /\ UNCHANGED <<editingFieldId, editor, viewDragged, viewDropTarget, nextId, dragVars>>

\* FieldEditor, option row: onDragEnd
editorDragEnd ==
    /\ editingFieldId # 0
    /\ drag.kind = "editorOption"
    /\ NoRowHovered
    /\ editedField.type \in OptionTypes
    /\ OptionCount(editedField) > 0
    /\ draggedOptionIndex' = Null
    /\ dropTargetOptionIndex' = Null
    /\ drag' = NoDrag
    /\ last' = "editorDragEnd"
    /\ UNCHANGED <<fields, editingFieldId, editedField, editor,
                   viewDragged, viewDropTarget, nextId, draggedFieldIndex,
                   isDragging>>

\* The fields shown through the read-only view with their options.
Viewed(k) ==
    /\ k \in DOMAIN fields
    /\ fields[k].id # editingFieldId
    /\ fields[k].type \in OptionTypes

handleRankingOptionDragStart(k, optionIndex) ==
    /\ Viewed(k)
    /\ drag.kind = "none"
    /\ optionIndex \in 0..(OptionCount(fields[k]) - 1)
    /\ viewDragged' = [viewDragged EXCEPT ![fields[k].id] = optionIndex]
    /\ drag' = Drag("option", fields[k].id)
    /\ last' = "handleRankingOptionDragStart"
    /\ UNCHANGED <<fields, editingFieldId, editedField, editor,
                   draggedOptionIndex, dropTargetOptionIndex, viewDropTarget,
                   nextId, draggedFieldIndex, isDragging>>

\* Mutation of handleRankingOptionDragOver for C27: the drop target is set
\* whatever is dragged.
handleRankingOptionDragOverAlways(k, optionIndex) ==
    /\ Viewed(k)
    /\ drag.kind # "none"
    /\ optionIndex \in 0..(OptionCount(fields[k]) - 1)
    /\ viewDropTarget' = [viewDropTarget EXCEPT ![fields[k].id] = optionIndex]
    /\ last' = "handleRankingOptionDragOver"
    /\ UNCHANGED <<fields, editingFieldId, editedField, editor,
                   draggedOptionIndex, dropTargetOptionIndex, viewDragged,
                   nextId, dragVars>>

handleRankingOptionDragOver(k, optionIndex) ==
    /\ Viewed(k)
    /\ drag.kind # "none"
    /\ optionIndex \in 0..(OptionCount(fields[k]) - 1)
    /\ viewDropTarget' =
         [viewDropTarget EXCEPT ![fields[k].id] =
            IF viewDragged[fields[k].id] = Null
               \/ viewDragged[fields[k].id] = optionIndex
            THEN Null ELSE optionIndex]
    /\ last' = "handleRankingOptionDragOver"
    /\ UNCHANGED <<fields, editingFieldId, editedField, editor,
                   draggedOptionIndex, dropTargetOptionIndex, viewDragged,
                   nextId, dragVars>>

\* Mutation of handleRankingOptionDragLeave for C28: the dragged index is
\* cleared with the drop target.
handleRankingOptionDragLeaveResets(k) ==
    /\ Viewed(k)
    /\ drag.kind # "none"
    /\ OptionCount(fields[k]) > 0
    /\ viewDropTarget' = [viewDropTarget EXCEPT ![fields[k].id] = Null]
    /\ viewDragged' = [viewDragged EXCEPT ![fields[k].id] = Null]
    /\ last' = "handleRankingOptionDragLeave"
    /\ UNCHANGED <<fields, editingFieldId, editedField, editor,
                   draggedOptionIndex, dropTargetOptionIndex, nextId, dragVars>>

handleRankingOptionDragLeave(k) ==
    /\ Viewed(k)
    /\ drag.kind # "none"
    /\ OptionCount(fields[k]) > 0
    /\ viewDropTarget' = [viewDropTarget EXCEPT ![fields[k].id] = Null]
    /\ last' = "handleRankingOptionDragLeave"
    /\ UNCHANGED <<fields, editingFieldId, editedField, editor,
                   draggedOptionIndex, dropTargetOptionIndex, viewDragged,
                   nextId, dragVars>>

\* Mutation of handleRankingOptionDrop for C12: an aborted drop keeps the
\* drag state.
handleRankingOptionDropKeepsState(k, dropIndex) ==
    /\ Viewed(k)
    /\ drag.kind # "none"
    /\ dropIndex \in 0..(OptionCount(fields[k]) - 1)
    /\ LET field == fields[k]
           dragged == viewDragged[field.id]
       IN IF dragged = Null \/ dragged = dropIndex \/ ~field.options.some
          THEN UNCHANGED <<fields, viewDragged, viewDropTarget>>
          ELSE /\ fields' = ReplaceField(fields,
                    [field EXCEPT !.options =
                       Some(Reorder(field.options.val, dragged, dropIndex))])
               /\ viewDragged' = [viewDragged EXCEPT ![fields[k].id] = Null]
               /\ viewDropTarget' = [viewDropTarget EXCEPT ![fields[k].id] = Null]
    /\ last' = "handleRankingOptionDrop"
    /\ UNCHANGED <<editingFieldId, editedField, editor, draggedOptionIndex,
                   dropTargetOptionIndex, nextId, dragVars>>

handleRankingOptionDrop(k, dropIndex) ==
    /\ Viewed(k)
    /\ drag.kind # "none"
    /\ dropIndex \in 0..(OptionCount(fields[k]) - 1)
    /\ LET field == fields[k]
           dragged == viewDragged[field.id]
       IN IF dragged = Null \/ dragged = dropIndex
          THEN UNCHANGED fields
          ELSE IF ~field.options.some
          THEN UNCHANGED fields
          ELSE fields' = ReplaceField(fields,
                 [field EXCEPT !.options =
                    Some(Reorder(field.options.val, dragged, dropIndex))])
    /\ viewDragged' = [viewDragged EXCEPT ![fields[k].id] = Null]
    /\ viewDropTarget' = [viewDropTarget EXCEPT ![fields[k].id] = Null]
    /\ last' = "handleRankingOptionDrop"
    /\ UNCHANGED <<editingFieldId, editedField, editor, draggedOptionIndex,
                   dropTargetOptionIndex, nextId, dragVars>>

\* dragend at the option handle of a field view: the drag is over, dropped
\* or not.  The handle has onDragStart only, so no handler runs.
optionHandleDragEnd ==
    /\ drag.kind = "option"
    /\ NoRowHovered
    /\ drag' = NoDrag
    /\ last' = "optionHandleDragEnd"
    /\ UNCHANGED <<fields, editingFieldId, editedField, editor,
                   draggedOptionIndex, dropTargetOptionIndex, viewDragged,
                   viewDropTarget, nextId, draggedFieldIndex, isDragging>>

\* The fields shown through the read-only view.
Shown(k) == k \in DOMAIN fields /\ fields[k].id # editingFieldId

\* FormField, grip handle: handleDragStart; onDragStart(e, field, index)
\* makes the collection remember the index.
handleDragStart(k) ==
    /\ Shown(k)
    /\ drag.kind = "none"
    /\ drag' = Drag("field", fields[k].id)
    /\ isDragging' = [isDragging EXCEPT ![fields[k].id] = TRUE]
    /\ draggedFieldIndex' = k - 1
    /\ last' = "handleDragStart"
    /\ UNCHANGED <<fields, editingFieldId, editedField, editor,
                   draggedOptionIndex, dropTargetOptionIndex, viewDragged,
                   viewDropTarget, nextId>>

\* FormField, grip handle: handleDragEnd; the collection ends its drag.
handleDragEnd(k) ==
    /\ Shown(k)
    /\ drag.kind = "field"
    /\ NoRowHovered
    /\ isDragging[fields[k].id]
    /\ drag' = NoDrag
    /\ isDragging' = [isDragging EXCEPT ![fields[k].id] = FALSE]
    /\ draggedFieldIndex' = Null
    /\ last' = "handleDragEnd"
    /\ UNCHANGED <<fields, editingFieldId, editedField, editor,
                   draggedOptionIndex, dropTargetOptionIndex, viewDragged,
                   viewDropTarget, nextId>>

\* The collection's onDrop(e, index): the reorder protocol on the fields.
DropField(fs, from, to) ==
    IF from = Null \/ from = to \/ from >= Len(fs) THEN fs
    ELSE Reorder(fs, from, to)

\* FormField, outside the option rows: handleDrop, for whatever is dragged.
handleDrop(k) ==
    /\ Shown(k)
    /\ drag.kind # "none"
    /\ fields' = DropField(fields, draggedFieldIndex, k - 1)
    /\ draggedFieldIndex' = Null
    /\ last' = "handleDrop"
    /\ UNCHANGED <<editingFieldId, editedField, editor, draggedOptionIndex,
                   dropTargetOptionIndex, viewDragged, viewDropTarget, nextId,
                   drag, isDragging>>

---------------------------------------------------------------------------
(* The editing session's life cycle *)

\* descriptionRef.current?.value: the textarea shown for section and image.
DescriptionShown(f) ==
    IF f.type \in SpecialTypes
    THEN Some(IF Truthy(f.description, "") THEN f.description.val ELSE "")
    ELSE NoString

\* Mutation of SavedField for C24: the saved field has an id of its own.
SavedFieldNewId(f, d) ==
    [f EXCEPT !.id = nextId,
              !.formattedQuestion = Some(innerHTML(d)),
              !.question = OrText(textContent(d), f.question),
              !.description = IF Truthy(DescriptionShown(f), "")
                              THEN DescriptionShown(f) ELSE f.description]

\* The field handleSave hands to onSave.
SavedField(f, d) ==
    [f EXCEPT !.formattedQuestion = Some(innerHTML(d)),
              !.question = OrText(textContent(d), f.question),
              !.description = IF Truthy(DescriptionShown(f), "")
                              THEN DescriptionShown(f) ELSE f.description]

\* The session's end: FieldEditor is unmounted and its state is gone (the
\* session variables then show the committed field f and an empty surface).
Unmount(f) ==
    /\ editingFieldId' = 0
    /\ editedField' = f
    /\ editor' = EmptySurface
    /\ draggedOptionIndex' = Null
    /\ dropTargetOptionIndex' = Null

\* edit(id): a session is opened on a copy of the field.
OpenSession(k) ==
    /\ editingFieldId = 0
    /\ drag.kind = "none"
    /\ k \in DOMAIN fields
    /\ editingFieldId' = fields[k].id
    /\ editedField' = fields[k]
    /\ editor' = InitialSurface(fields[k])
    /\ draggedOptionIndex' = Null
    /\ dropTargetOptionIndex' = Null
    /\ last' = "OpenSession"
    /\ UNCHANGED <<fields, viewDragged, viewDropTarget, nextId, dragVars>>

\* handleSave, and onSave: the collection replaces the field and ends the session.
handleSave ==
    /\ editingFieldId # 0
    /\ drag.kind = "none"
    /\ fields' = ReplaceField(fields, SavedField(editedField, editor))
    /\ Unmount(SavedField(editedField, editor))
    /\ last' = "handleSave"
    /\ UNCHANGED <<viewDragged, viewDropTarget, nextId, dragVars>>

\* delete(id) in the collection: the field with the id is removed.
RemoveField(fs, id) == SelectSeq(fs, LAMBDA f : f.id # id)

\* FieldEditor: handleDeleteField, onDelete(field.id); field is the prop the
\* session was opened on. The collection removes the field and ends the
\* session.
handleDeleteField ==
    /\ editingFieldId # 0
    /\ drag.kind = "none"
    /\ fields' = RemoveField(fields, editingFieldId)
    /\ Unmount(editedField)
    /\ last' = "handleDeleteField"
    /\ UNCHANGED <<viewDragged, viewDropTarget, nextId, dragVars>>

\* The session ends without a save; the working copy is dropped.
Discard ==
    /\ editingFieldId # 0
    /\ drag.kind = "none"
    /\ Unmount(LiveCopy)
    /\ last' = "Discard"
    /\ UNCHANGED <<fields, viewDragged, viewDropTarget, nextId, dragVars>>

---------------------------------------------------------------------------
(* Duplication *)

\* duplicate in the collection: a copy of f with the id newId and with new
\* option ids newId + 1, newId + 2, ... in the order of f's options.
DuplicateField(f, newId) ==
    [f EXCEPT !.id = newId,
              !.options = IF f.options.some
                          THEN Some([k \in DOMAIN f.options.val |->
                                       Option(newId + k, f.options.val[k].value)])
                          ELSE f.options]

\* f with the id id, placed after the fields of the collection and shown in
\* a field view of its own.
AddDuplicate(f) ==
    /\ fields' = Append(fields, DuplicateField(f, nextId))
    /\ nextId' = nextId + 1 + OptionCount(f)
    /\ viewDragged' = [id \in DOMAIN viewDragged \cup {nextId} |->
                         IF id = nextId THEN Null ELSE viewDragged[id]]
    /\ viewDropTarget' = [id \in DOMAIN viewDropTarget \cup {nextId} |->
                            IF id = nextId THEN Null ELSE viewDropTarget[id]]
    /\ isDragging' = [id \in DOMAIN isDragging \cup {nextId} |->
                        IF id = nextId THEN FALSE ELSE isDragging[id]]

\* FormField: handleDuplicate, onDuplicate(field.id)
handleDuplicate(k) ==
    /\ Shown(k)
    /\ drag.kind = "none"
    /\ AddDuplicate(fields[k])
    /\ last' = "handleDuplicate"
    /\ UNCHANGED <<editingFieldId, editedField, editor, draggedOptionIndex,
                   dropTargetOptionIndex, drag, draggedFieldIndex>>

\* Mutation of handleDuplicateField for C16: the committed field is handed
\* over, not the working copy.
handleDuplicateFieldCommitted ==
    /\ editingFieldId # 0
    /\ drag.kind = "none"
    /\ AddDuplicate(LiveCopy)
    /\ last' = "handleDuplicateField"
    /\ UNCHANGED <<editingFieldId, editedField, editor, draggedOptionIndex,
                   dropTargetOptionIndex, drag, draggedFieldIndex>>

\* FieldEditor: handleDuplicateField, onDuplicate(currentField)
handleDuplicateField ==
    /\ editingFieldId # 0
    /\ drag.kind = "none"
    /\ AddDuplicate(SavedField(editedField, editor))
    /\ last' = "handleDuplicateField"
    /\ UNCHANGED <<editingFieldId, editedField, editor, draggedOptionIndex,
                   dropTargetOptionIndex, drag, draggedFieldIndex>>

---------------------------------------------------------------------------
(* The preview *)

\* answers[fieldId] || []
AnswerList(as, fieldId) == IF fieldId \in DOMAIN as THEN as[fieldId] ELSE <<>>

\* { ...answers, [fieldId]: value }
WithAnswer(as, fieldId, value) ==
    [id \in DOMAIN as \cup {fieldId} |-> IF id = fieldId THEN value ELSE as[id]]

\* currentValues.includes(value), currentValues.indexOf(value) !== -1
Includes(values, value) == \E k \in DOMAIN values : values[k] = value

\* The fields the preview renders: the committed fields, no session open.
Previewed(k, type) ==
    /\ editingFieldId = 0
    /\ drag.kind = "none"
    /\ k \in DOMAIN fields
    /\ fields[k].type = type
    /\ fields[k].options.some

\* FormPreview: the radio of option o of field k is chosen.
handleMultipleChoiceChange(k, o) ==
    /\ Previewed(k, "multiple_choice")
    /\ o \in DOMAIN fields[k].options.val
    /\ answers' = WithAnswer(answers, fields[k].id, fields[k].options.val[o].value)
    /\ last' = "handleMultipleChoiceChange"
    /\ UNCHANGED <<fields, editingFieldId, editedField, editor,
                   draggedOptionIndex, dropTargetOptionIndex, viewDragged,
                   viewDropTarget, nextId, dragVars>>

\* FormPreview: the checkbox of option o of field k is clicked.
handleCheckboxChange(k, o) ==
    /\ Previewed(k, "checkbox")
    /\ o \in DOMAIN fields[k].options.val
    /\ LET fieldId == fields[k].id
           value == fields[k].options.val[o].value
           currentValues == AnswerList(answers, fieldId)
       IN answers' =
            IF ~Includes(currentValues, value)
            THEN WithAnswer(answers, fieldId, Append(currentValues, value))
            ELSE WithAnswer(answers, fieldId,
                            SelectSeq(currentValues, LAMBDA item : item # value))
    /\ last' = "handleCheckboxChange"
    /\ UNCHANGED <<fields, editingFieldId, editedField, editor,
                   draggedOptionIndex, dropTargetOptionIndex, viewDragged,
                   viewDropTarget, nextId, dragVars>>

\* FormPreview.renderField, checkbox: the options rendered checked.
CheckedBoxes(field, as) ==
    {o \in DOMAIN field.options.val :
        Includes(AnswerList(as, field.id), field.options.val[o].value)}

\* FormPreview.renderField, multiple_choice: the radios rendered with
\* checked = true.
CheckedRadios(field, as) ==
    {o \in DOMAIN field.options.val :
        field.id \in DOMAIN as /\ as[field.id] = field.options.val[o].value}

\* The radios of a field share the name field.id and form one radio group:
\* the browser shows one radio of the group checked, one of those rendered
\* with checked = true, whichever it is.
RadiosShown(field, as) ==
    IF CheckedRadios(field, as) = {} THEN {{}}
    ELSE {{o} : o \in CheckedRadios(field, as)}

---------------------------------------------------------------------------
(* Specifications *)

IdsOf(f) == {f.id} \cup (IF f.options.some THEN OptionIds(f) ELSE {})

MaxOf(S) == CHOOSE m \in S : \A x \in S : x <= m

\* A collection holding the committed field f alone.  With editing,
\* FieldEditor is mounted on f: the working copy is a copy of f
\* (useState({ ...field })) and the surface holds what the mount effect puts
\* there; without, f is shown through the read-only view.
InitWith(f, editing) ==
    /\ fields = <<f>>
    /\ editingFieldId = (IF editing THEN f.id ELSE 0)
    /\ editedField = f
    /\ editor = (IF editing THEN InitialSurface(f) ELSE EmptySurface)
    /\ draggedOptionIndex = Null
    /\ dropTargetOptionIndex = Null
    /\ viewDragged = [id \in {f.id} |-> Null]
    /\ viewDropTarget = [id \in {f.id} |-> Null]
    /\ nextId = MaxOf(IdsOf(f)) + 1
    /\ drag = NoDrag
    /\ draggedFieldIndex = Null
    /\ isDragging = [id \in {f.id} |-> FALSE]
    /\ steps = 0
    /\ last = "init"
    /\ answers = NoAnswers

Init == \E type \in FieldTypes : InitWith(NewField(1, type, 2, 3), TRUE)

OptionValuesInput == {<<"x">>}

\* Every operation counts as one step; a run performs at most MaxSteps.
\* The operations of the builder leave the preview's answers alone.
Tick == steps < MaxSteps /\ steps' = steps + 1 /\ UNCHANGED answers

\* One operation of the preview.
PreviewTick == steps < MaxSteps /\ steps' = steps + 1

\* The type state machine and the option editor of one session.
NextType ==
    \/ Tick /\ \E type \in FieldTypes : handleTypeChange(type)
    \/ Tick /\ \E id \in OptionIds(editedField), value \in OptionValuesInput :
          handleOptionChange(id, value)
    \/ Tick /\ handleAddOption
    \/ Tick /\ \E id \in OptionIds(editedField) : handleDeleteOption(id)

SpecType == Init /\ [][NextType]_vars

\* The rich-text surface of one session, with type changes and saves.
NextText ==
    \/ Tick /\ \E type \in FieldTypes : handleTypeChange(type)
    \/ Tick /\ \E command \in Commands : handleFormat(command)
    \/ Tick /\ \E d \in InputResults(editor) : handleEditorChange(d)
    \/ Tick /\ handleSave

SpecText == Init /\ [][NextText]_vars

\* One session with every operation that touches the option list, next to
\* the collection's live copy of the field.
NextMirror ==
    \/ Tick /\ \E type \in FieldTypes : handleTypeChange(type)
    \/ Tick /\ \E id \in OptionIds(editedField) \cup {UnknownId}, value \in OptionValuesInput :
          handleOptionChange(id, value)
    \/ Tick /\ handleAddOption
    \/ Tick /\ handleAddOtherOption
    \/ Tick /\ \E id \in OptionIds(editedField) \cup {UnknownId} : handleDeleteOption(id)
    \/ Tick /\ \E i \in 0..(MaxSteps + 1) : editorDragStart(i)
    \/ Tick /\ \E i \in 0..(MaxSteps + 1) : editorDrop(i)
    \/ Tick /\ editorDragEnd
    \/ Tick /\ \E d \in InputResults(editor) : handleEditorChange(d)
    \/ Tick /\ handleSave
    \/ Tick /\ Discard

SpecMirror == Init /\ [][NextMirror]_vars

Letters == <<"A", "B", "C", "D", "E", "F">>

\* A committed field with n options A, B, C, ... as Update leaves them.
FieldWithOptions(type, n) ==
    FormFieldType(1, type, <<"Q">>,
                  Some([k \in 1..n |-> Option(k + 1, <<Letters[k]>>)]))

\* The reorder protocol alone: a field with 2..MaxList options, shown in
\* the field view (no session) or open in an editing session.
InitReorder ==
    \E type \in OptionTypes, n \in 2..MaxList, editing \in BOOLEAN :
        InitWith(FieldWithOptions(type, n), editing)

NextReorder ==
    \/ Tick /\ \E i \in 0..(MaxList - 1) : editorDragStart(i)
    \/ Tick /\ \E i \in 0..(MaxList - 1) : editorDragOver(i)
    \/ Tick /\ editorDragLeave
    \/ Tick /\ \E i \in 0..(MaxList - 1) : editorDrop(i)
    \/ Tick /\ editorDragEnd
    \/ Tick /\ \E i \in 0..(MaxList - 1) : handleRankingOptionDragStart(1, i)
    \/ Tick /\ \E i \in 0..(MaxList - 1) : handleRankingOptionDragOver(1, i)
    \/ Tick /\ handleRankingOptionDragLeave(1)
    \/ Tick /\ \E i \in 0..(MaxList - 1) : handleRankingOptionDrop(1, i)
    \/ Tick /\ optionHandleDragEnd

SpecReorder == InitReorder /\ [][NextReorder]_vars

\* A second committed field, with two options.
SecondField(type) ==
    FormFieldType(10, type, <<"R">>,
                  Some(<<Option(11, <<"X">>), Option(12, <<"Y">>)>>))

\* Two fields shown in the field view, no session open.
InitDrag ==
    \E type1 \in OptionTypes, n \in 2..MaxList, type2 \in {"checkbox", "ranking"} :
        /\ fields = <<FieldWithOptions(type1, n), SecondField(type2)>>
        /\ editingFieldId = 0
        /\ editedField = fields[1]
        /\ editor = EmptySurface
        /\ draggedOptionIndex = Null
        /\ dropTargetOptionIndex = Null
        /\ viewDragged = [id \in {1, 10} |-> Null]
        /\ viewDropTarget = [id \in {1, 10} |-> Null]
        /\ nextId = 13
        /\ drag = NoDrag
        /\ draggedFieldIndex = Null
        /\ isDragging = [id \in {1, 10} |-> FALSE]
        /\ steps = 0
        /\ last = "init"
        /\ answers = NoAnswers

\* Field drags and option drags in the field view.
NextDrag ==
    \/ Tick /\ \E k \in 1..2 : handleDragStart(k)
    \/ Tick /\ \E k \in 1..2 : handleDragEnd(k)
    \/ Tick /\ \E k \in 1..2 : handleDrop(k)
    \/ Tick /\ \E k \in 1..2, i \in 0..(MaxList - 1) : handleRankingOptionDragStart(k, i)
    \/ Tick /\ \E k \in 1..2, i \in 0..(MaxList - 1) : handleRankingOptionDragOver(k, i)
    \/ Tick /\ \E k \in 1..2 : handleRankingOptionDragLeave(k)
    \/ Tick /\ \E k \in 1..2, i \in 0..(MaxList - 1) : handleRankingOptionDrop(k, i)
    \/ Tick /\ optionHandleDragEnd

SpecDrag == InitDrag /\ [][NextDrag]_vars

\* A committed field with 1..MaxList options, shown in the field view or
\* open in an editing session.
InitDuplicate ==
    \E type \in OptionTypes, n \in 1..MaxList, editing \in BOOLEAN :
        InitWith(FieldWithOptions(type, n), editing)

\* Duplication from the field view and from a session, with the option
\* editor, saves and new sessions.
NextDuplicate ==
    \/ Tick /\ \E k \in 1..(MaxSteps + 1) : handleDuplicate(k)
    \/ Tick /\ handleDuplicateField
    \/ Tick /\ \E id \in OptionIds(editedField), value \in OptionValuesInput :
          handleOptionChange(id, value)
    \/ Tick /\ handleAddOption
    \/ Tick /\ \E id \in OptionIds(editedField) : handleDeleteOption(id)
    \/ Tick /\ handleSave
    \/ Tick /\ \E k \in 1..(MaxSteps + 1) : OpenSession(k)

SpecDuplicate == InitDuplicate /\ [][NextDuplicate]_vars

\* A committed field with 2..MaxList - 1 options, shown in the field view
\* or open in an editing session.
InitOptionList ==
    \E type \in {"dropdown", "ranking"}, n \in 2..(MaxList - 1), editing \in BOOLEAN :
        InitWith(FieldWithOptions(type, n), editing)

\* Every operation that touches an option list: the session's type change,
\* option editor and reorder, the saves and new sessions, and the reorder
\* of the field view.
NextOptionList ==
    \/ Tick /\ \E type \in FieldTypes : handleTypeChange(type)
    \/ Tick /\ \E id \in OptionIds(editedField), value \in OptionValuesInput :
          handleOptionChange(id, value)
    \/ Tick /\ handleAddOption
    \/ Tick /\ handleAddOtherOption
    \/ Tick /\ \E id \in OptionIds(editedField) : handleDeleteOption(id)
    \/ Tick /\ \E i \in 0..(MaxList - 1) : editorDragStart(i)
    \/ Tick /\ \E i \in 0..(MaxList - 1) : editorDrop(i)
    \/ Tick /\ editorDragEnd
    \/ Tick /\ handleSave
    \/ Tick /\ OpenSession(1)
    \/ Tick /\ \E i \in 0..(MaxList - 1) : handleRankingOptionDragStart(1, i)
    \/ Tick /\ \E i \in 0..(MaxList - 1) : handleRankingOptionDrop(1, i)
    \/ Tick /\ optionHandleDragEnd

SpecOptionList == InitOptionList /\ [][NextOptionList]_vars

\* Two committed fields, the second one a ranking field, and a session open
\* on one of them.
InitSession ==
    \E type1 \in {"dropdown", "ranking"}, k \in 1..2 :
        /\ fields = <<FieldWithOptions(type1, 2), SecondField("ranking")>>
        /\ editingFieldId = fields[k].id
        /\ editedField = fields[k]
        /\ editor = InitialSurface(fields[k])
        /\ draggedOptionIndex = Null
        /\ dropTargetOptionIndex = Null
        /\ viewDragged = [id \in {1, 10} |-> Null]
        /\ viewDropTarget = [id \in {1, 10} |-> Null]
        /\ nextId = 13
        /\ drag = NoDrag
        /\ draggedFieldIndex = Null
        /\ isDragging = [id \in {1, 10} |-> FALSE]
        /\ steps = 0
        /\ last = "init"
        /\ answers = NoAnswers

\* A session from its start to its end by save or by delete, with the
\* operations that push the working copy to the collection.
NextSession ==
    \/ Tick /\ \E type \in FieldTypes : handleTypeChange(type)
    \/ Tick /\ \E id \in OptionIds(editedField), value \in OptionValuesInput :
          handleOptionChange(id, value)
    \/ Tick /\ handleAddOption
    \/ Tick /\ \E id \in OptionIds(editedField) : handleDeleteOption(id)
    \/ Tick /\ \E i \in 0..(MaxList - 1) : editorDragStart(i)
    \/ Tick /\ \E i \in 0..(MaxList - 1) : editorDrop(i)
    \/ Tick /\ editorDragEnd
    \/ Tick /\ handleToggleRequired
    \/ Tick /\ handleSave
    \/ Tick /\ handleDeleteField
    \/ Tick /\ handleDuplicateField
    \/ Tick /\ \E k \in 1..(MaxSteps + 2) : OpenSession(k)

SpecSession == InitSession /\ [][NextSession]_vars

\* Sessions one after the other on one field: text inputs, formatting
\* commands and type changes, the save, and the next session.
NextSeed ==
    \/ Tick /\ \E type \in {"section", "free_text"} : handleTypeChange(type)
    \/ Tick /\ \E command \in Commands : handleFormat(command)
    \/ Tick /\ \E d \in InputResults(editor) : handleEditorChange(d)
    \/ Tick /\ handleSave
    \/ Tick /\ OpenSession(1)

SpecSeed == Init /\ [][NextSeed]_vars

\* A field whose view holds the dragged index of an option drag that ended
\* without a drop (optionHandleDragEnd resets nothing), shown in the field
\* view or with a session opened on it since.
InitStale ==
    \E type \in {"dropdown", "ranking"}, n \in 2..(MaxList - 1),
       i \in 0..(MaxList - 2), editing \in BOOLEAN :
        /\ i < n
        /\ fields = <<FieldWithOptions(type, n)>>
        /\ editingFieldId = (IF editing THEN 1 ELSE 0)
        /\ editedField = fields[1]
        /\ editor = (IF editing THEN InitialSurface(fields[1]) ELSE EmptySurface)
        /\ draggedOptionIndex = Null
        /\ dropTargetOptionIndex = Null
        /\ viewDragged = [id \in {1} |-> i]
        /\ viewDropTarget = [id \in {1} |-> Null]
        /\ nextId = MaxOf(IdsOf(fields[1])) + 1
        /\ drag = NoDrag
        /\ draggedFieldIndex = Null
        /\ isDragging = [id \in {1} |-> FALSE]
        /\ steps = 0
        /\ last = "init"
        /\ answers = NoAnswers

\* The option list changed by a session, and drags of the field's grip and
\* of its options dropped on the option rows.
NextStale ==
    \/ Tick /\ handleAddOption
    \/ Tick /\ \E id \in OptionIds(editedField) : handleDeleteOption(id)
    \/ Tick /\ handleSave
    \/ Tick /\ Discard
    \/ Tick /\ OpenSession(1)
    \/ Tick /\ \E i \in 0..(MaxList - 1) : editorDragStart(i)
    \/ Tick /\ \E i \in 0..(MaxList - 1) : editorDrop(i)
    \/ Tick /\ editorDragEnd
    \/ Tick /\ handleDragStart(1)
    \/ Tick /\ handleDragEnd(1)
    \/ Tick /\ \E i \in 0..(MaxList - 1) : handleRankingOptionDragStart(1, i)
    \/ Tick /\ \E i \in 0..(MaxList - 1) : handleRankingOptionDrop(1, i)
    \/ Tick /\ optionHandleDragEnd

SpecStale == InitStale /\ [][NextStale]_vars

\* A committed multiple_choice or checkbox field with one or two options,
\* open in an editing session.
InitPreview ==
    \E type \in {"multiple_choice", "checkbox"}, n \in 1..2 :
        InitWith(FieldWithOptions(type, n), TRUE)

\* The option list is edited and committed, then the preview is answered:
\* the preview starts with no answers, so the builder's operations come
\* before the first answer.
NextPreview ==
    \/ Tick /\ answers = NoAnswers /\ handleAddOption
    \/ Tick /\ answers = NoAnswers /\ handleAddOtherOption
    \/ Tick /\ answers = NoAnswers
            /\ \E id \in OptionIds(editedField) : handleDeleteOption(id)
    \/ Tick /\ answers = NoAnswers /\ handleSave
    \/ Tick /\ answers = NoAnswers /\ OpenSession(1)
    \/ PreviewTick
       /\ \E k \in DOMAIN fields, o \in 1..MaxList : handleMultipleChoiceChange(k, o)
    \/ PreviewTick
       /\ \E k \in DOMAIN fields, o \in 1..MaxList : handleCheckboxChange(k, o)

SpecPreview == InitPreview /\ [][NextPreview]_vars

\* Mutation of renderQuestion for C31: the stored HTML is rendered as it is.
renderQuestionRaw(field) ==
    IF Truthy(field.formattedQuestion, <<>>)
    THEN field.formattedQuestion.val
    ELSE field.question

\* FormField.renderQuestion: the HTML the field view shows for the question
\* (the same for a section and for the other types, but for the element).
renderQuestion(field) ==
    IF Truthy(field.formattedQuestion, <<>>)
    THEN sanitizeHtml(field.formattedQuestion.val)
    ELSE field.question

\* FormPreview.renderQuestion: the HTML the preview shows for the question.
FormPreview_renderQuestion(field) ==
    IF Truthy(field.formattedQuestion, <<>>)
    THEN sanitizeHtml(field.formattedQuestion.val)
    ELSE field.question

\* FormPreview.renderField: whether the required marker is rendered.
RequiredMarker(f) == f.type \notin SpecialTypes /\ f.required

ImageUrls == {"", "u"}

Descriptions == {"", "d"}

\* The attributes of one session: type, required flag, image URL and
\* description, with saves.
NextAttributes ==
    \/ Tick /\ \E type \in FieldTypes : handleTypeChange(type)
    \/ Tick /\ handleToggleRequired
    \/ Tick /\ \E value \in ImageUrls : handleImageUrlChange(value)
    \/ Tick /\ \E value \in Descriptions : handleDescriptionChange(value)
    \/ Tick /\ handleSave

SpecAttributes == Init /\ [][NextAttributes]_vars

---------------------------------------------------------------------------
(* Properties of the type state machine (SpecType) *)

DefaultOptionValues == <<<<"Option 1">>, <<"Option 2">>>>

\* The ids in use before a step: those of the committed fields and of the
\* working copy.
IdsInUse == IdsOf(editedField) \cup UNION {IdsOf(fields[k]) : k \in DOMAIN fields}

\* C1: a type change into an option-bearing type from a working copy with
\* zero options (absent or empty list) yields the target type and exactly
\* two options valued "Option 1", "Option 2", with ids that are distinct
\* from each other and fresh (not in use, not handed out before).
C1_DefaultOptionsOnTypeChange ==
    [][\A type \in OptionTypes :
         (handleTypeChange(type) /\ OptionCount(editedField) = 0)
         => /\ editedField'.type = type
            /\ editedField'.options.some
            /\ OptionValues(editedField') = DefaultOptionValues
            /\ editedField'.options.val[1].id # editedField'.options.val[2].id
            /\ \A id \in OptionIds(editedField') :
                  id \notin IdsInUse /\ id >= nextId]_vars

\* C1 witness: a free_text field (no option list) has just been changed to
\* checkbox and carries the two default options with the ids just drawn.
C1_Witness ==
    /\ last = "handleTypeChange"
    /\ steps = 1
    /\ ~LiveCopy.options.some
    /\ editedField.type = "checkbox"
    /\ OptionValues(editedField) = DefaultOptionValues
    /\ editedField.options.val[1].id = nextId - 2
    /\ editedField.options.val[2].id = nextId - 1

\* C2 (as stated): a type change between two option-bearing types leaves
\* the option list unchanged: same ids, same values, same order, same length.
C2_OptionsUnchangedBetweenOptionTypes ==
    [][\A type \in OptionTypes :
         (handleTypeChange(type) /\ editedField.type \in OptionTypes)
         => editedField'.options = editedField.options]_vars

\* C2 (amended): a type change between two option-bearing types leaves a
\* non-empty option list unchanged (same ids, values, order and length) and
\* sets the target type.
C2_NonEmptyOptionsUnchangedBetweenOptionTypes ==
    [][\A type \in OptionTypes :
         (handleTypeChange(type) /\ editedField.type \in OptionTypes
            /\ OptionCount(editedField) > 0)
         => /\ editedField'.options = editedField.options
            /\ editedField'.type = type]_vars

\* C2 witness: the first step changed an option-bearing field to another
\* option-bearing type and the option list is the committed, non-empty one.
C2_Witness ==
    /\ last = "handleTypeChange"
    /\ steps = 1
    /\ LiveCopy.type = "multiple_choice"
    /\ editedField.type = "ranking"
    /\ OptionCount(editedField) = 2
    /\ editedField.options = LiveCopy.options

\* C3: in every state of an editing session the working copy has an option
\* list if and only if its type is option-bearing, and so has every
\* committed field.
C3_OptionsIffOptionType ==
    /\ editingFieldId # 0 =>
         (editedField.options.some <=> editedField.type \in OptionTypes)
    /\ \A k \in DOMAIN fields :
         fields[k].options.some <=> fields[k].type \in OptionTypes

\* C4: setting the type to the value the working copy already has changes
\* nothing of the working copy and draws no ids.
C4_SetSameTypeIsNoOp ==
    [][\A type \in FieldTypes :
         (handleTypeChange(type) /\ type = editedField.type)
         => editedField' = editedField /\ nextId' = nextId]_vars

---------------------------------------------------------------------------
(* Properties of the rich-text surface (SpecText) *)

\* A present formattedQuestion is a non-empty one: the empty string the
\* handlers store for an empty surface renders as no HTML at all.
QuestionIsPlainText(f) ==
    Truthy(f.formattedQuestion, <<>>)
    => f.question = PlainText(f.formattedQuestion.val)

\* C5: in every state of an editing session, and in every committed field,
\* whenever formattedQuestion is present, question is the plain-text content
\* of formattedQuestion.
C5_QuestionIsPlainTextOfFormatted ==
    /\ editingFieldId # 0 => QuestionIsPlainText(editedField)
    /\ \A k \in DOMAIN fields : QuestionIsPlainText(fields[k])

\* C6: after each formatting command, in any sequence of commands and text
\* inputs, formattedQuestion is the HTML of the surface, question is the
\* text content of the same surface, and question is the plain-text
\* extraction of formattedQuestion.
C6_FormatKeepsQuestionInSync ==
    [][\A command \in Commands :
         handleFormat(command)
         => /\ editedField'.formattedQuestion = Some(innerHTML(editor'))
            /\ editedField'.question = textContent(editor')
            /\ editedField'.question =
                 PlainText(editedField'.formattedQuestion.val)]_vars

\* C6 witness: a formatting command has just been applied to typed text: the
\* surface is marked up and the working copy holds its HTML and its text.
C6_Witness ==
    /\ last = "handleFormat"
    /\ editor.text # <<>>
    /\ editor.marks # {}
    /\ editedField.formattedQuestion = Some(innerHTML(editor))
    /\ editedField.formattedQuestion.val # editor.text
    /\ editedField.question = editor.text

\* C7: what a text input, a format command or a save stores into
\* formattedQuestion is the sanitizer's output on the surface's HTML.
C7_FormattedQuestionIsSanitized ==
    [][/\ ((\E d \in InputResults(editor) : handleEditorChange(d))
             \/ (\E command \in Commands : handleFormat(command)))
          => editedField'.formattedQuestion = Some(sanitizeHtml(innerHTML(editor')))
       /\ handleSave
          => fields'[IndexOfField(editingFieldId)].formattedQuestion
               = Some(sanitizeHtml(innerHTML(editor)))]_vars

---------------------------------------------------------------------------
(* Properties of the mirror rule (SpecMirror) *)

\* C8: while a session is open on a field whose type is not ranking (in the
\* working copy and in the collection), no operation but the save changes
\* the field collection.
C8_NoCollectionChangeBeforeCommit ==
    [][(/\ editingFieldId # 0
        /\ editedField.type # "ranking"
        /\ LiveCopy.type # "ranking"
        /\ last' # "handleSave")
       => fields' = fields]_vars

\* The option-mutating operations of a session: add, add-other, update,
\* delete, and a drop that reorders.
OptionMutation ==
    \/ handleAddOption
    \/ handleAddOtherOption
    \/ \E id \in OptionIds(editedField) \cup {UnknownId}, value \in OptionValuesInput :
          handleOptionChange(id, value)
    \/ \E id \in OptionIds(editedField) \cup {UnknownId} : handleDeleteOption(id)
    \/ \E i \in 0..(OptionCount(editedField) - 1) :
          editorDrop(i) /\ draggedOptionIndex # Null /\ draggedOptionIndex # i

\* C9: while the working copy's type is ranking, every option-mutating
\* operation leaves the live copy's option list equal to the working copy's.
C9_RankingMutationsAreMirrored ==
    [][(editedField.type = "ranking" /\ OptionMutation)
       => fields'[IndexOfField(editingFieldId)].options = editedField'.options]_vars

\* C9 witness: an option has just been added to a ranking field and the
\* live copy shows the three options of the working copy.
C9_Witness ==
    /\ last = "handleAddOption"
    /\ editingFieldId # 0
    /\ editedField.type = "ranking"
    /\ OptionValues(editedField) =
         <<<<"Option 1">>, <<"Option 2">>, <<"Option 3">>>>
    /\ LiveCopy.options = editedField.options

---------------------------------------------------------------------------
(* Properties of the reorder protocol (SpecReorder) *)

\* The sequence "after" is "before" with the element at index i removed and
\* inserted at index j of the shortened sequence (0-based i, j).
Moved(before, after, i, j) ==
    /\ Len(after) = Len(before)
    /\ \A k \in 1..Len(before) :
         after[k] = IF k = j + 1 THEN before[i + 1]
                    ELSE IF i < j /\ k \in (i + 1)..j THEN before[k + 1]
                    ELSE IF i > j /\ k \in (j + 2)..(i + 1) THEN before[k - 1]
                    ELSE before[k]
    /\ i < j => after[j] = before[j + 1]
    /\ i > j => after[j + 2] = before[j + 1]

ValuesABCD == <<<<"A">>, <<"B">>, <<"C">>, <<"D">>>>

\* C10: in the field view and in the editing session, a drop at j of the
\* item picked up at a distinct valid index i removes it and inserts it at
\* index j of the shortened sequence: right after the element originally at
\* j when i < j, right before it when i > j; [A,B,C,D] with 0 dropped at 2
\* gives [B,C,A,D] and with 3 dropped at 1 gives [A,D,B,C].
C10_DropSemantics ==
    [][/\ \A j \in 0..(MaxList - 1) :
            (handleRankingOptionDrop(1, j) /\ viewDragged[1] # Null
               /\ viewDragged[1] # j)
            => Moved(fields[1].options.val, fields'[1].options.val,
                     viewDragged[1], j)
       /\ \A j \in 0..(MaxList - 1) :
            (editorDrop(j) /\ draggedOptionIndex # Null /\ draggedOptionIndex # j)
            => Moved(editedField.options.val, editedField'.options.val,
                     draggedOptionIndex, j)
       /\ (handleRankingOptionDrop(1, 2) /\ viewDragged[1] = 0
             /\ OptionValues(fields[1]) = ValuesABCD)
          => OptionValues(fields'[1]) = <<<<"B">>, <<"C">>, <<"A">>, <<"D">>>>
       /\ (editorDrop(1) /\ draggedOptionIndex = 3
             /\ OptionValues(editedField) = ValuesABCD)
          => OptionValues(editedField') = <<<<"A">>, <<"D">>, <<"B">>, <<"C">>>>
      ]_vars

\* C10 witness: in the field view, A of [A,B,C,D] was picked up and dropped
\* at index 2.
C10_Witness ==
    /\ last = "handleRankingOptionDrop"
    /\ steps = 2
    /\ editingFieldId = 0
    /\ OptionValues(fields[1]) = <<<<"B">>, <<"C">>, <<"A">>, <<"D">>>>

---------------------------------------------------------------------------
(* Properties of the drag state (SpecDrag) *)

\* C11: outside an active drag (after a drop, a drop on the dragged element
\* itself, a cancel or a drag end without a drop) no reorder instance has a
\* dragged index or a drop target index set.
C11_NoDragStateOutsideADrag ==
    drag.kind = "none"
    => /\ draggedOptionIndex = Null /\ dropTargetOptionIndex = Null
       /\ \A id \in DOMAIN viewDragged :
            viewDragged[id] = Null /\ viewDropTarget[id] = Null
       /\ draggedFieldIndex = Null

\* A drop at j with nothing picked up, or on the picked-up row itself.
ViewAbortedDrop(j) ==
    handleRankingOptionDrop(1, j) /\ (viewDragged[1] = Null \/ viewDragged[1] = j)

EditorAbortedDrop(j) ==
    editorDrop(j) /\ (draggedOptionIndex = Null \/ draggedOptionIndex = j)

\* C12 (as stated): a drop at j when nothing is picked up, or when j is the
\* picked-up index, changes no sequence, notifies no one and leaves both
\* indices none, in the field view and in the editing session.
C12_AbortedDropResetsIndices ==
    [][\A j \in 0..(MaxList - 1) :
         /\ ViewAbortedDrop(j)
            => /\ fields' = fields
               /\ viewDragged'[1] = Null /\ viewDropTarget'[1] = Null
         /\ EditorAbortedDrop(j)
            => /\ fields' = fields /\ editedField' = editedField
               /\ draggedOptionIndex' = Null
               /\ dropTargetOptionIndex' = Null]_vars

\* C12 (amended): an aborted drop changes no sequence and notifies no one;
\* in the field view it leaves both indices none; in the editing session it
\* leaves the indices as they are, and the drag end that closes the gesture
\* sets both to none.
C12_AbortedDropChangesNothing ==
    [][/\ \A j \in 0..(MaxList - 1) :
            /\ ViewAbortedDrop(j)
               => /\ fields' = fields
                  /\ viewDragged'[1] = Null /\ viewDropTarget'[1] = Null
            /\ EditorAbortedDrop(j)
               => /\ fields' = fields /\ editedField' = editedField
                  /\ draggedOptionIndex' = draggedOptionIndex
                  /\ dropTargetOptionIndex' = dropTargetOptionIndex
       /\ editorDragEnd
          => /\ draggedOptionIndex' = Null /\ dropTargetOptionIndex' = Null
             /\ fields' = fields /\ editedField' = editedField]_vars

\* C12 witness: in the field view an option of [A,B,C] was picked up and
\* dropped on its own row: the order is the same and both indices are none.
C12_Witness ==
    /\ last = "handleRankingOptionDrop"
    /\ steps = 2
    /\ editingFieldId = 0
    /\ OptionValues(fields[1]) = <<<<"A">>, <<"B">>, <<"C">>>>
    /\ viewDragged[1] = Null /\ viewDropTarget[1] = Null

FieldOrder(fs) == [k \in DOMAIN fs |-> fs[k].id]

\* The option lists of the fields with the ids in S are the same in fs and gs.
SameOptions(fs, gs, S) ==
    \A k \in DOMAIN fs, m \in DOMAIN gs :
       (fs[k].id = gs[m].id /\ fs[k].id \in S) => gs[m].options = fs[k].options

\* C13: while a field handle is dragged no step changes an option list;
\* while an option handle is dragged no step changes the order of the fields
\* or the option list of a field other than the handle's.
C13_FieldAndOptionDragsDoNotInteract ==
    [][/\ drag.kind = "field"
          => SameOptions(fields, fields', {fields[k].id : k \in DOMAIN fields})
       /\ drag.kind = "option"
          => /\ FieldOrder(fields') = FieldOrder(fields)
             /\ SameOptions(fields, fields',
                   {fields[k].id : k \in DOMAIN fields} \ {drag.source})]_vars

---------------------------------------------------------------------------
(* Properties of the required flag and the type defaults (SpecAttributes) *)

\* C14: a committed field of type section or image has required = FALSE,
\* whatever the flag was before the type change, and the preview shows no
\* required marker for it.
C14_SpecialTypesAreNotRequired ==
    \A k \in DOMAIN fields :
       fields[k].type \in SpecialTypes
       => ~fields[k].required /\ ~RequiredMarker(fields[k])

\* C15: toggleRequired leaves the working copy as it is when the type is
\* section or image; for every other type it flips required and changes no
\* other attribute.  The collection is not touched.
C15_ToggleRequiredFrame ==
    [][handleToggleRequired
       => /\ editedField.type \in SpecialTypes => editedField' = editedField
          /\ editedField.type \notin SpecialTypes
             => /\ editedField'.required = ~editedField.required
                /\ \A a \in DOMAIN editedField \ {"required"} :
                      editedField'[a] = editedField[a]
          /\ fields' = fields]_vars

\* C15 witness: the flag of a dropdown field has just been switched on.
C15_Witness ==
    /\ last = "handleToggleRequired"
    /\ steps = 1
    /\ editedField.type = "dropdown"
    /\ editedField.required
    /\ ~LiveCopy.required
    /\ editedField = [LiveCopy EXCEPT !.required = TRUE]

---------------------------------------------------------------------------
(* Properties of duplication (SpecDuplicate) *)

AllFieldIds(fs) == {fs[k].id : k \in DOMAIN fs}

\* fs with the field dup added is a duplicate of source: the fields of fs
\* are as they were, dup has a new id, and its options carry the values of
\* source's options in order under ids that are distinct and new.
IsDuplicate(source, fs, gs) ==
    LET dup == gs[Len(gs)]
    IN /\ Len(gs) = Len(fs) + 1
       /\ \A k \in DOMAIN fs : gs[k] = fs[k]
       /\ dup.id # source.id
       /\ dup.id \notin AllFieldIds(fs)
       /\ dup.options.some = source.options.some
       /\ OptionValues(dup) = OptionValues(source)
       /\ Cardinality(OptionIds(dup)) = OptionCount(source)
       /\ OptionIds(dup) \cap IdsInUse = {}
       /\ \A a \in DOMAIN source \ {"id", "options"} : dup[a] = source[a]
       /\ \A k \in DOMAIN gs, m \in DOMAIN gs :
             k # m => OptionIds(gs[k]) \cap OptionIds(gs[m]) = {}

\* C16: duplicating a field with N options, from the field view or from the
\* working copy of a session, adds a field with a new id and N options with
\* N distinct new ids and the source's values in order; the source and
\* every other field keep their ids, the working copy is not changed, and no
\* option id is shared between two fields.
C16_DuplicateHasNewIdsAndSameValues ==
    [][/\ \A k \in 1..(MaxSteps + 1) :
            handleDuplicate(k) => IsDuplicate(fields[k], fields, fields')
       /\ handleDuplicateField
          => /\ IsDuplicate(SavedField(editedField, editor), fields, fields')
             /\ OptionValues(fields'[Len(fields')]) = OptionValues(editedField)
             /\ editedField' = editedField]_vars

\* C16 witness: a session renamed an option of [A,B] and duplicated the
\* working copy: the duplicate has the renamed values under two new ids.
C16_Witness ==
    /\ last = "handleDuplicateField"
    /\ steps = 2
    /\ Len(fields) = 2
    /\ OptionValues(editedField) = <<<<"x">>, <<"B">>>>
    /\ OptionValues(fields[2]) = <<<<"x">>, <<"B">>>>
    /\ OptionValues(fields[1]) = <<<<"A">>, <<"B">>>>
    /\ OptionIds(fields[2]) = {nextId - 2, nextId - 1}
    /\ fields[2].id = nextId - 3

---------------------------------------------------------------------------
(* Properties of the type change to section and to image *)

\* C17: a type change to section on a working copy that has an option list
\* leaves a working copy of type section with an empty option list and the
\* question "Section Title".
C17_SectionClearsOptionsAndSetsTitle ==
    [][handleTypeChange("section") /\ editedField.options.some
       => /\ editedField'.type = "section"
          /\ editedField'.options = Some(<<>>)
          /\ editedField'.question = <<"Section Title">>]_vars

\* C17 witness: a working copy that had three options is now a section with
\* none and with the default title.
C17_Witness ==
    /\ last = "handleTypeChange"
    /\ steps = 2
    /\ nextId = 5
    /\ editedField.type = "section"
    /\ editedField.options = Some(<<>>)
    /\ editedField.question = <<"Section Title">>

\* C18: a type change to image leaves a working copy of type image with the
\* question "Image Question" and with the image URL it had, or the empty
\* string if it had none; no other attribute changes.
C18_ImageSetsQuestionAndKeepsUrl ==
    [][handleTypeChange("image")
       => /\ editedField'.type = "image"
          /\ editedField'.question = <<"Image Question">>
          /\ editedField'.imageUrl =
                Some(IF editedField.imageUrl.some /\ editedField.imageUrl.val # ""
                     THEN editedField.imageUrl.val ELSE "")
          /\ \A a \in DOMAIN editedField \ {"type", "question", "imageUrl"} :
                editedField'[a] = editedField[a]]_vars

\* C18 witness: a working copy with the image URL "u", required and with
\* two options became an image and kept all three.
C18_Witness ==
    /\ last = "handleTypeChange"
    /\ steps = 4
    /\ editedField.type = "image"
    /\ editedField.question = <<"Image Question">>
    /\ editedField.imageUrl = Some("u")
    /\ editedField.required
    /\ OptionCount(editedField) = 2

---------------------------------------------------------------------------
(* Properties of Add and Update in the option editor *)

LastOption(f) == f.options.val[Len(f.options.val)]

\* C19: with no value entered, handleAddOption appends exactly one option,
\* with an id not in use and the value "Option N" where N is the length of
\* the working copy's list before the append plus one; an Add right after
\* an Add is numbered one higher, whatever the values of the other options.
C19_AddAppendsPositionalPlaceholder ==
    [][handleAddOption
       => LET n == OptionCount(editedField)
          IN /\ editedField'.options.some
             /\ Len(editedField'.options.val) = n + 1
             /\ \A k \in 1..n :
                   editedField'.options.val[k] = editedField.options.val[k]
             /\ LastOption(editedField').value = OptionLabel(n + 1)
             /\ LastOption(editedField').id \notin IdsInUse
             /\ \A a \in DOMAIN editedField \ {"options"} :
                   editedField'[a] = editedField[a]
             /\ last = "handleAddOption"
                => /\ LastOption(editedField).value = OptionLabel(n)
                   /\ LastOption(editedField').value = OptionLabel(n + 1)]_vars

\* C19 witness: the first of two options was renamed and two options were
\* added one after the other: they are "Option 3" and "Option 4".
C19_Witness ==
    /\ last = "handleAddOption"
    /\ steps = 3
    /\ OptionValues(editedField)
         = <<<<"x">>, <<"Option 2">>, <<"Option 3">>, <<"Option 4">>>>
    /\ LastOption(editedField).id = nextId - 1

\* C20: handleOptionChange(id, value) gives the option with that id the
\* value and changes no id, no position, no other option's value and no
\* other attribute; with an id no option has, the working copy is as it was.
C20_UpdateReplacesOnlyTheMatchingValue ==
    [][\A id \in OptionIds(editedField) \cup {UnknownId}, value \in OptionValuesInput :
          handleOptionChange(id, value)
          => /\ editedField'.options.some = editedField.options.some
             /\ OptionCount(editedField') = OptionCount(editedField)
             /\ \A k \in 1..OptionCount(editedField) :
                   /\ editedField'.options.val[k].id = editedField.options.val[k].id
                   /\ editedField'.options.val[k].value =
                         IF editedField.options.val[k].id = id
                         THEN value ELSE editedField.options.val[k].value
             /\ \A a \in DOMAIN editedField \ {"options"} :
                   editedField'[a] = editedField[a]
             /\ id \notin OptionIds(editedField) => editedField' = editedField]_vars

\* C20 witness: of three options the second one was updated; the first and
\* the third have the values and all three the ids they had.
C20_Witness ==
    /\ last = "handleOptionChange"
    /\ steps = 2
    /\ OptionValues(editedField) = <<<<"Option 1">>, <<"x">>, <<"Option 3">>>>
    /\ [k \in 1..3 |-> editedField.options.val[k].id] = <<2, 3, 4>>

\* C20 witness of the unknown id: an update was the only operation and the
\* option list is the one the session started with.
C20_WitnessUnknownId ==
    /\ last = "handleOptionChange"
    /\ steps = 1
    /\ OptionValues(editedField) = <<<<"Option 1">>, <<"Option 2">>>>

---------------------------------------------------------------------------
(* Properties of Delete in the option editor *)

\* seq without its element at position p (1-based).
Without(seq, p) == SubSeq(seq, 1, p - 1) \o SubSeq(seq, p + 1, Len(seq))

\* C21: handleDeleteOption(id) removes the option with that id and keeps
\* the other options in their order; with an id no option has, the working
\* copy is as it was; the last remaining option can be deleted and leaves
\* an empty list. No other attribute changes.
C21_DeleteRemovesOnlyTheMatchingOption ==
    [][\A id \in OptionIds(editedField) \cup {UnknownId} :
          handleDeleteOption(id)
          => /\ editedField'.options.some = editedField.options.some
             /\ id \notin OptionIds(editedField) => editedField' = editedField
             /\ id \in OptionIds(editedField)
                => \E p \in DOMAIN editedField.options.val :
                      /\ editedField.options.val[p].id = id
                      /\ editedField'.options.val =
                            Without(editedField.options.val, p)
             /\ OptionIds(editedField) = {id} /\ OptionCount(editedField) = 1
                => editedField'.options = Some(<<>>)
             /\ \A a \in DOMAIN editedField \ {"options"} :
                   editedField'[a] = editedField[a]]_vars

\* C21 witness: of the options 2, 3 and 4 the middle one was deleted, then
\* a delete with an id no option has left the two others in place.
C21_Witness ==
    /\ last = "handleDeleteOption"
    /\ steps = 3
    /\ nextId = 5
    /\ OptionValues(editedField) = <<<<"Option 1">>, <<"Option 3">>>>
    /\ [k \in 1..2 |-> editedField.options.val[k].id] = <<2, 4>>

\* C21 witness of the last option: both options were deleted and the list
\* is empty.
C21_WitnessEmptied ==
    /\ last = "handleDeleteOption"
    /\ steps = 2
    /\ editedField.options = Some(<<>>)
    /\ editedField.type \in OptionTypes

\* C22: deleting the only remaining option leaves an empty option list, and
\* a handleAddOption right after it leaves a list of one option with the
\* value "Option 1".
C22_AddAfterDeletingTheOnlyOption ==
    [][/\ \A id \in OptionIds(editedField) :
             handleDeleteOption(id) /\ OptionCount(editedField) = 1
             => editedField'.options = Some(<<>>)
       /\ handleAddOption /\ last = "handleDeleteOption"
             /\ editedField.options = Some(<<>>)
          => /\ OptionCount(editedField') = 1
             /\ OptionValues(editedField') = <<<<"Option 1">>>>]_vars

\* C22 witness: both options were deleted and one was added: the list is
\* one option, "Option 1", with a new id.
C22_Witness ==
    /\ last = "handleAddOption"
    /\ steps = 3
    /\ OptionValues(editedField) = <<<<"Option 1">>>>
    /\ OptionIds(editedField) = {4}
    /\ nextId = 5

---------------------------------------------------------------------------
(* Option ids (SpecOptionList) *)

DistinctIds(f) == Cardinality(OptionIds(f)) = OptionCount(f)

IdSeq(f) ==
    IF f.options.some
    THEN [k \in DOMAIN f.options.val |-> f.options.val[k].id] ELSE <<>>

OptionSet(f) ==
    IF f.options.some
    THEN {f.options.val[k] : k \in DOMAIN f.options.val} ELSE {}

\* g has the options of f, each with its id and value, in some order.
SameOptionsReordered(f, g) ==
    OptionCount(g) = OptionCount(f) /\ OptionSet(g) = OptionSet(f)

---------------------------------------------------------------------------
(* The identity of the field of a session (SpecSession) *)

\* C24: the working copy has the id of the field the session was opened on
\* as long as the session lasts; the field handleSave hands over replaces
\* the field with that id, every field pushed to the collection while the
\* session lasts is the working copy under that id, and handleDeleteField
\* removes the field with that id and no other.
C24_SessionKeepsTheFieldId ==
    /\ [](editingFieldId # 0 => editedField.id = editingFieldId)
    /\ [][/\ handleSave
             => /\ FieldOrder(fields') = FieldOrder(fields)
                /\ fields'[IndexOfField(editingFieldId)]
                      = SavedField(editedField, editor)
                /\ SavedField(editedField, editor).id = editingFieldId
          /\ (/\ editingFieldId # 0
              /\ editingFieldId' = editingFieldId
              /\ last' # "handleDuplicateField")
             => /\ FieldOrder(fields') = FieldOrder(fields)
                /\ \A k \in DOMAIN fields :
                      fields'[k] # fields[k]
                      => fields'[k].id = editingFieldId /\ fields'[k] = editedField'
          /\ handleDeleteField
             => /\ fields' = SelectSeq(fields, LAMBDA f : f.id # editedField.id)
                /\ Len(fields') = Len(fields) - 1]_vars

\* C24 witness: the session on field 1 changed the type to ranking, added
\* an option (pushed to the collection) and saved: the committed field with
\* the three options is field 1.
C24_Witness ==
    /\ last = "handleSave"
    /\ steps = 3
    /\ FieldOrder(fields) = <<1, 10>>
    /\ fields[1].type = "ranking"
    /\ OptionCount(fields[1]) = 3
    /\ nextId = 14

\* C24 witness of the delete request: the session on field 10 added an
\* option and asked for the delete: field 1 is what is left.
C24_WitnessDelete ==
    /\ last = "handleDeleteField"
    /\ steps = 2
    /\ FieldOrder(fields) = <<1>>
    /\ nextId = 14

---------------------------------------------------------------------------
(* The type change as a function (SpecType) *)

\* C25: a type change to free_text, or to section on a working copy whose
\* option list is absent or empty, changes the type and nothing else.
C25_TypeOnlyChange ==
    [][\A type \in {"free_text", "section"} :
          (/\ handleTypeChange(type)
           /\ type = "section" => OptionCount(editedField) = 0)
          => /\ editedField'.type = type
             /\ \A a \in DOMAIN editedField \ {"type"} :
                   editedField'[a] = editedField[a]]_vars


\* The type change applied to f with the ids the generator hands out next.
Once(f, type) == TypeChange(f, type, nextId, nextId + 1)

\* The type change applied to the result of the first, with the two ids
\* after those.
Twice(f, type) == TypeChange(Once(f, type), type, nextId + 2, nextId + 3)

\* C26: for every working copy and every type, the change to the type
\* applied twice gives the field it gives applied once, with the same option
\* list under the same ids; and a handleTypeChange to the type the previous
\* handleTypeChange set changes nothing and draws no ids.
C26_TypeChangeIsIdempotent ==
    /\ [](\A type \in FieldTypes :
             /\ Twice(editedField, type) = Once(editedField, type)
             /\ ~TypeChangeDrawsIds(Once(editedField, type), type))
    /\ [][\A type \in FieldTypes :
             (/\ handleTypeChange(type)
              /\ last = "handleTypeChange"
              /\ editedField.type = type)
             => editedField' = editedField /\ nextId' = nextId]_vars

\* C26 witness: both options were deleted and the type was set to checkbox
\* twice: the list is the two defaults the first change made, with its ids.
C26_Witness ==
    /\ last = "handleTypeChange"
    /\ steps = 4
    /\ editedField.type = "checkbox"
    /\ IdSeq(editedField) = <<4, 5>>
    /\ nextId = 6

---------------------------------------------------------------------------
(* Hovering and leaving in the reorder protocol (SpecReorder) *)

\* What HoverOver(j) is to leave as the drop target.
HoverTarget(dragged, j) == IF dragged # Null /\ dragged # j THEN j ELSE Null

C27_WitnessEditor ==
    /\ last = "editorDragOver"
    /\ steps = 2
    /\ draggedOptionIndex = 0
    /\ dropTargetOptionIndex = 2

\* C28: leaving a row clears the drop target and changes neither the
\* dragged index nor the option list, in the field view and in the editing
\* session.
C28_LeaveClearsTargetOnly ==
    [][/\ handleRankingOptionDragLeave(1)
          => /\ viewDropTarget'[fields[1].id] = Null
             /\ viewDragged' = viewDragged
             /\ fields' = fields
       /\ editorDragLeave
          => /\ dropTargetOptionIndex' = Null
             /\ draggedOptionIndex' = draggedOptionIndex
             /\ editedField' = editedField
             /\ fields' = fields]_vars

\* C28 witness: in the field view option 1 was picked up, hovered over row
\* 0 and left it: no drop target, option 1 still dragged, the list [A,B].
C28_Witness ==
    /\ last = "handleRankingOptionDragLeave"
    /\ steps = 3
    /\ viewDragged[fields[1].id] = 1
    /\ viewDropTarget[fields[1].id] = Null
    /\ OptionValues(fields[1]) = <<<<"A">>, <<"B">>>>

\* C28 witness of the editing session: the same in a session.
C28_WitnessEditor ==
    /\ last = "editorDragLeave"
    /\ steps = 3
    /\ draggedOptionIndex = 1
    /\ dropTargetOptionIndex = Null
    /\ OptionValues(editedField) = <<<<"A">>, <<"B">>>>

---------------------------------------------------------------------------
(* Commit and the start of a session (SpecText) *)

\* C29: the field handleSave hands over has the surface's HTML as
\* formattedQuestion and the surface's plain text as question, whether or
\* not the surface is empty, so that question is the plain text of
\* formattedQuestion; id, type, required, options and imageUrl are the
\* working copy's.
C29_CommitReturnsTheSurface ==
    [][handleSave
       => LET saved == fields'[IndexOfField(editingFieldId)]
          IN /\ saved.formattedQuestion = Some(innerHTML(editor))
             /\ saved.question = textContent(editor)
             /\ saved.question = PlainText(saved.formattedQuestion.val)
             /\ \A a \in {"id", "type", "required", "options", "imageUrl"} :
                   saved[a] = editedField[a]]_vars


C30_WitnessPlainQuestion ==
    /\ last = "OpenSession"
    /\ steps = 3
    /\ ~Truthy(fields[1].formattedQuestion, <<>>)
    /\ fields[1].question = <<"Section Title">>
    /\ editor = setInnerText(<<"Section Title">>)

---------------------------------------------------------------------------
(* Rendering of the stored HTML (SpecSeed) *)

HasForeignTag(html) == \E k \in DOMAIN html : html[k] = ForeignTag

\* C31: what the field view and the preview show for a committed field's
\* question, and what a starting session writes to the surface, is the
\* sanitizer's output on the stored formattedQuestion: no markup outside
\* the allow-list is shown, whatever was stored.
C31_StoredHtmlIsSanitizedWhenShown ==
    /\ [](\A k \in DOMAIN fields :
             /\ ~HasForeignTag(renderQuestion(fields[k]))
             /\ ~HasForeignTag(FormPreview_renderQuestion(fields[k]))
             /\ Truthy(fields[k].formattedQuestion, <<>>)
                => /\ renderQuestion(fields[k])
                        = sanitizeHtml(fields[k].formattedQuestion.val)
                   /\ FormPreview_renderQuestion(fields[k])
                        = sanitizeHtml(fields[k].formattedQuestion.val))
    /\ [][OpenSession(1)
          => /\ ~HasForeignTag(innerHTML(editor'))
             /\ Truthy(fields[1].formattedQuestion, <<>>)
                => innerHTML(editor') = sanitizeHtml(fields[1].formattedQuestion.val)]_vars

\* C31 witness: a committed field stores text with markup outside the
\* allow-list; the field view and the preview show the text without it.
C31_Witness ==
    /\ last = "handleSave"
    /\ HasForeignTag(fields[1].formattedQuestion.val)
    /\ renderQuestion(fields[1]) # <<>>
    /\ ~HasForeignTag(renderQuestion(fields[1]))
    /\ ~HasForeignTag(FormPreview_renderQuestion(fields[1]))

---------------------------------------------------------------------------
(* What a live mirror carries (SpecMirror) *)

\* C32: an option mutation mirrored for a ranking working copy changes the
\* option list of the collection's copy and nothing else of it: its type,
\* question, formattedQuestion, required, description and imageUrl stay as
\* they were committed.
C32_MirrorChangesOnlyTheOptionList ==
    [][(editingFieldId # 0 /\ editedField.type = "ranking" /\ OptionMutation)
       => \A a \in DOMAIN LiveCopy \ {"options"} :
             fields'[IndexOfField(editingFieldId)][a] = LiveCopy[a]]_vars

---------------------------------------------------------------------------
(* The default questions at Commit (SpecText) *)

DefaultQuestion(type) ==
    IF type = "section" THEN <<"Section Title">> ELSE <<"Image Question">>

\* C33: when a type change to section or image has written its default
\* question and the save comes right after it, the field handed over has
\* that default question, whatever text the surface holds.
C33_DefaultQuestionIsCommitted ==
    [][(/\ handleSave
        /\ last = "handleTypeChange"
        /\ editedField.type \in SpecialTypes
        /\ editedField.question = DefaultQuestion(editedField.type))
       => fields'[IndexOfField(editingFieldId)].question
             = DefaultQuestion(editedField.type)]_vars

---------------------------------------------------------------------------
(* The drag state of the reorder instances *)

ValidIndex(i, f) == i \in 0..(OptionCount(f) - 1)

\* C35: a dragged index that is set is an index of the option list the
\* reorder instance now shows: of the committed field in the field view, of
\* the working copy in the editing session.
C35_DraggedIndexIsValid ==
    /\ \A k \in DOMAIN fields :
          viewDragged[fields[k].id] # Null
          => ValidIndex(viewDragged[fields[k].id], fields[k])
    /\ (editingFieldId # 0 /\ draggedOptionIndex # Null)
       => ValidIndex(draggedOptionIndex, editedField)


\* after is before with one of its options moved: the same length, the same
\* options, none of them undefined, and the others in the order they had.
IsMoveOf(before, after) ==
    /\ Len(after) = Len(before)
    /\ {after[k] : k \in DOMAIN after} = {before[k] : k \in DOMAIN before}
    /\ \A k \in DOMAIN after : after[k] # Undefined
    /\ \E m \in {before[k] : k \in DOMAIN before} :
          SelectSeq(after, LAMBDA o : o # m) = SelectSeq(before, LAMBDA o : o # m)

\* C34: a drop that changes the option list, in the field view or in the
\* editing session, leaves the list it found with one option moved.
C34_DropPermutesTheList ==
    [][\A j \in 0..(MaxList - 1) :
          /\ (handleRankingOptionDrop(1, j) /\ fields'[1].options # fields[1].options)
             => IsMoveOf(fields[1].options.val, fields'[1].options.val)
          /\ (editorDrop(j) /\ editedField'.options # editedField.options)
             => IsMoveOf(editedField.options.val, editedField'.options.val)]_vars


\* C36: a drop target is set only while a dragged index is set, and the two
\* differ, in every field view and in the editing session.
C36_TargetOnlyWithAnotherDragged ==
    /\ \A k \in DOMAIN fields :
          viewDropTarget[fields[k].id] # Null
          => /\ viewDragged[fields[k].id] # Null
             /\ viewDragged[fields[k].id] # viewDropTarget[fields[k].id]
    /\ dropTargetOptionIndex # Null
       => /\ draggedOptionIndex # Null
          /\ draggedOptionIndex # dropTargetOptionIndex


\* A row of the field view is the drop target of the option dragged from
\* another row.
C36_Witness ==
    /\ last = "handleRankingOptionDragOver"
    /\ viewDragged[1] # Null
    /\ viewDropTarget[1] # Null

\* The same in the editing session.
C36_WitnessEditor ==
    /\ last = "editorDragOver"
    /\ draggedOptionIndex # Null
    /\ dropTargetOptionIndex # Null


\* C37: a session opened on a committed field and committed with no edit in
\* between leaves the field as it was: the same id, type, question,
\* formattedQuestion (absent if it was absent), required, options,
\* description and imageUrl.
C37_CommitWithoutEditReturnsTheField ==
    [][(handleSave /\ last \in {"init", "OpenSession"})
       => \E k \in DOMAIN fields :
             /\ fields[k].id = editingFieldId
             /\ fields'[k] = fields[k]]_vars


\* C38: in the preview, after one option of a multiple_choice field is
\* selected one option of the field is shown selected, and a click on one
\* checkbox changes the checked state of that option and of no other, for
\* every option list the editor commits.
C38_PreviewSelectsTheOptionClicked ==
    [][\A k \in DOMAIN fields, o \in 1..MaxList :
          /\ handleMultipleChoiceChange(k, o)
             => \A shown \in RadiosShown(fields[k], answers') :
                   Cardinality(shown) = 1
          /\ handleCheckboxChange(k, o)
             => LET before == CheckedBoxes(fields[k], answers)
                    after == CheckedBoxes(fields[k], answers')
                IN (before \ after) \cup (after \ before) = {o}]_vars

===========================================================================
